---- MODULE Spec2Model ----
(***************************************************************************)
(* A model of tradervue-exporter: the rate-limited, retrying API client    *)
(* (package api) and the incremental export orchestrator (package          *)
(* exporter), both found in src/internal/api/client.go.                    *)
(*                                                                         *)
(* Time of the transport is in milliseconds.                               *)
(***************************************************************************)
EXTENDS Integers, Sequences, FiniteSets, TLC

(***************************************************************************)
(* Program constants.                                                      *)
(***************************************************************************)
maxPerPage == 100
requestDelay == 200
maxRetries == 3


\* Calendar dates are day numbers: the string "yyyy-mm-dd" (fileDateFmt) or
\* "mm/dd/yyyy" (tvDateFmt) of day d is the number d >= 1, and the order of the
\* fixed-width yyyy-mm-dd strings is the order of the numbers.  Day 1 is
\* 01/01/2010, the lower bound discovery sends.  NoDate is the empty string
\* (it sorts before every date), BadDate a string that is no date.
NoDate == 0
BadDate == -1
discoverFrom == 1
\* The UTC offset (hours) of America/New_York, the reference timezone.
RefOff == -5

(***************************************************************************)
(* Bounds of the model.                                                    *)
(***************************************************************************)
\* get calls made on one Client in a behaviour of SpecGet
MaxCalls == 2
\* runs of the exporter made in a behaviour of Spec
MaxRuns == 2
\* numbers of trades the synthetic account of SpecPage may hold: 0..MaxN
MaxN == 201
\* the largest value of a Go int in the model (page counters wrap beyond it)
IntMax == 127
\* the history of a run records its first MaxLog events
MaxLog == 32

\* What the remote service (or the network) answers to one HTTP attempt, and
\* how long the answer takes.  A response whose body cannot be read is a
\* "readerr"; a 200 response may carry a body that is not the expected JSON.
Statuses == {200, 400, 401, 404, 500, 503}
Latencies == {50, 300}
IdleTimes == {0, 300}
Outcomes ==
    {[kind |-> "neterr", status |-> 0, json |-> FALSE]}
    \cup {[kind |-> "readerr", status |-> 401, json |-> FALSE]}
    \cup {[kind |-> "resp", status |-> s, json |-> TRUE] : s \in Statuses}
    \cup {[kind |-> "resp", status |-> 200, json |-> FALSE]}

NilErr == [msg |-> "nil", status |-> 0]

\* The days on which the account of Spec may hold trades, and the numbers of
\* trades such a day may hold.
TradeDays == 1..2
LastDay == CHOOSE d \in TradeDays : \A e \in TradeDays : e <= d
DayCounts == {0, 2}

VARIABLES
    clock,      \* the wall clock read by time.Now / time.Since (ms)
    lastReq,    \* Client.lastReq: [isZero, ms]
    gpc,        \* position of doGet: "idle" (no call running) or "loop"
    attempt,    \* doGet's loop variable
    lastErr,    \* doGet's lastErr
    gres,       \* what the last finished doGet returned
    calls,      \* number of doGet calls begun
    outs,       \* history: the outcomes of the attempts of the running/last call
    issued      \* history: issue times of all HTTP requests of this Client

tvars == <<clock, lastReq, gpc, attempt, lastErr, gres, calls, outs, issued>>

VARIABLES
    \* the world around the exporter
    remote,     \* the account: [echo, trades], trades newest first
    now,        \* the instant time.Now() returns (hours), fixed during a run
    localOff,   \* UTC offset (hours) of the process's local timezone
    tzdata,     \* whether time.LoadLocation("America/New_York") succeeds
    \* the data directory
    archives,   \* trades/<date>.json: a function from dates to file contents
    stateFile,  \* state.json
    \* Exporter.Run
    rpc,        \* "idle", "discover", "fetch", "persist" or "done"
    opts,       \* Options of the run
    state,      \* the *ExportState loaded by loadState
    startDate,  \* time.Time: [inst, off]
    endDate,
    page,       \* loop variable of discoverFirstTradeDate / fetchAllTrades
    oldest,     \* discoverFirstTradeDate's oldest
    found,      \* discoverFirstTradeDate's found
    all,        \* fetchAllTrades's all
    byDate,     \* Run's byDate
    dates,      \* Run's dates
    idx,        \* position of Run's loop over dates (1-based)
    totalTrades,
    ret,        \* what Run returned: "running", "nil", or an error
    \* history
    runs,       \* runs begun so far
    before,     \* the data directory as the current run found it
    log         \* the network requests and file writes of the current run

envvars == <<remote, now, localOff, tzdata>>
diskvars == <<archives, stateFile>>
runvars == <<rpc, opts, state, startDate, endDate, page, oldest, found, all,
             byDate, dates, idx, totalTrades, ret>>
histvars == <<runs, before, log>>
xvars == <<envvars, diskvars, runvars, histvars>>

vars == <<tvars, xvars>>

(***************************************************************************)
(* package api: Client.rateLimit and Client.doGet                          *)
(***************************************************************************)

\* time.Sleep(d) at time t returns at t + d; a non-positive d returns at once.
SleepUntil(t, d) == IF d > 0 THEN t + d ELSE t

\* rateLimit: the time at which it returns, entered at time t.
rateLimitReturn(t) ==
    IF ~lastReq.isZero /\ t - lastReq.ms < requestDelay
    THEN SleepUntil(t, requestDelay - (t - lastReq.ms))
    ELSE t

\* The backoff slept before attempt number a (0-based): 1<<a seconds for a > 0.
backoffWait(a) == IF a > 0 THEN (2 ^ a) * 1000 ELSE 0

\* (mutant of classify: every failure status is taken for a transient one)
classify_retryAnyFailure(status) ==
    IF status # 200 THEN "retry" ELSE "200"

\* The error doGet's switch returns at once for a received response, or
\* "retry" (status >= 500), or "200".
classify(status) ==
    IF status = 401 THEN "authentication failed"
    ELSE IF status = 400 THEN "bad request"
    ELSE IF status >= 500 THEN "retry"
    ELSE IF status # 200 THEN "unexpected status"
    ELSE "200"

\* The error kept in lastErr for an attempt that is to be retried.
attemptErr(o) ==
    IF o.kind = "neterr" THEN [msg |-> "request failed", status |-> 0]
    ELSE IF o.kind = "readerr" THEN [msg |-> "reading response", status |-> 0]
    ELSE [msg |-> "server error", status |-> o.status]

\* What one attempt's outcome leads to: "retry" (continue), "200", or the
\* message of the error returned at once.  The transport error and the body
\* read error are tested before the status is looked at.
attemptVerdict(o) ==
    IF o.kind = "neterr" THEN "retry"
    ELSE IF o.kind = "readerr" THEN "retry"
    ELSE classify(o.status)

\* (mutant of loopCond: off by one)
loopCond_offByOne(a) == a <= maxRetries

\* The for statement's condition.
loopCond(a) == a < maxRetries

\* A call to doGet begins: some time after the previous call returned,
\* rateLimit() runs and the retry loop is entered with attempt = 0.
doGetBegin ==
    /\ gpc = "idle"
    /\ calls < MaxCalls
    /\ \E idle \in IdleTimes :
         LET t == rateLimitReturn(clock + idle) IN
         /\ clock' = t
         /\ lastReq' = [isZero |-> FALSE, ms |-> t]
    /\ gpc' = "loop"
    /\ attempt' = 0
    /\ lastErr' = NilErr
    /\ gres' = [status |-> "running", msg |-> "", cause |-> NilErr, attempts |-> 0]
    /\ calls' = calls + 1
    /\ outs' = <<>>
    /\ UNCHANGED <<issued, xvars>>

\* One turn of the retry loop: the backoff sleep, the HTTP request, and the
\* handling of what came back.
doGetAttempt ==
    /\ gpc = "loop"
    /\ loopCond(attempt)
    /\ \E o \in Outcomes, lat \in Latencies :
         LET tIssue == SleepUntil(clock, backoffWait(attempt))
             c == attemptVerdict(o)
             err == attemptErr(o)
         IN
         /\ issued' = Append(issued, tIssue)
         /\ clock' = tIssue + lat
         /\ outs' = Append(outs, o)
         /\ IF c = "retry"
            THEN /\ lastErr' = err
                 /\ attempt' = attempt + 1
                 /\ UNCHANGED <<gpc, gres>>
            ELSE /\ gpc' = "idle"
                 /\ gres' = IF c = "200" /\ o.json
                            THEN [status |-> "ok", msg |-> "", cause |-> NilErr,
                                  attempts |-> attempt + 1]
                            ELSE [status |-> "err",
                                  msg |-> IF c = "200" THEN "parsing response" ELSE c,
                                  cause |-> NilErr, attempts |-> attempt + 1]
                 /\ UNCHANGED <<lastErr, attempt>>
    /\ UNCHANGED <<lastReq, calls, xvars>>

\* The loop condition fails: every attempt was used up.
doGetExhausted ==
    /\ gpc = "loop"
    /\ ~loopCond(attempt)
    /\ gpc' = "idle"
    /\ gres' = [status |-> "err", msg |-> "request failed after attempts",
                cause |-> lastErr, attempts |-> attempt]
    /\ UNCHANGED <<clock, lastReq, attempt, lastErr, calls, outs, issued, xvars>>

\* A Client as NewClient returns it.
InitClient ==
    /\ clock = 0
    /\ lastReq = [isZero |-> TRUE, ms |-> 0]
    /\ gpc = "idle"
    /\ attempt = 0
    /\ lastErr = NilErr
    /\ gres = [status |-> "none", msg |-> "", cause |-> NilErr, attempts |-> 0]
    /\ calls = 0
    /\ outs = <<>>
    /\ issued = <<>>

(***************************************************************************)
(* package exporter: time, dates and the files of the data directory.      *)
(* An instant is a number of hours; a time.Time is [inst, off]: an instant  *)
(* and the UTC offset (hours) of its location.                             *)
(***************************************************************************)

\* time.Parse(fileDateFmt, s) of a valid date string: midnight UTC of the day.
ParseDate(d) == [inst |-> 24 * d, off |-> 0]
\* whether time.Parse(fileDateFmt, s) succeeds
IsDate(s) == s >= 1
\* t.AddDate(0, 0, 1)
AddDay(t) == [inst |-> t.inst + 24, off |-> t.off]
\* t.Format(fileDateFmt) and t.Format(tvDateFmt): the calendar day of t in its
\* own location.
FormatDate(t) == (t.inst + t.off) \div 24
\* t.After(u)
After(t, u) == t.inst > u.inst
\* time.Now(): the current instant, in the process's local timezone.
Now == [inst |-> now, off |-> localOff]
\* time.Time{}
ZeroTime == [inst |-> 0, off |-> 0]

\* A Trade is [ID, StartDatetime].  StartDatetime stands for the string the
\* service sent: [fmt, inst, off] is the instant inst written at UTC offset off
\* in RFC 3339 ("rfc3339"), its calendar day alone ("dateonly"), or text that
\* is neither ("bad": inst and off are then not readable from the string).
NoTrade == [ID |-> 0, StartDatetime |-> [fmt |-> "bad", inst |-> 0, off |-> 0]]

parseTradeDate(dt) ==
    IF dt.fmt = "rfc3339"
    THEN [ok |-> TRUE, t |-> [inst |-> dt.inst, off |-> IF tzdata THEN RefOff ELSE dt.off]]
    ELSE IF dt.fmt = "dateonly"
    THEN [ok |-> TRUE, t |-> ParseDate((dt.inst + dt.off) \div 24)]
    ELSE [ok |-> FALSE, t |-> ZeroTime]

\* The remote listing endpoint: the trades whose day (in the account's
\* timezone, the reference timezone) lies in [startdate, enddate], an empty
\* bound being open, newest first, cut into pages of count = maxPerPage.
\* An "echo" source answers every page number with the same full page.
RemoteDay(t) == (t.StartDatetime.inst + RefOff) \div 24
InWindow(t, s, e) ==
    /\ (s = NoDate \/ RemoteDay(t) >= s)
    /\ (e = NoDate \/ RemoteDay(t) <= e)
Listing(r, s, e) == SelectSeq(r.trades, LAMBDA t : InWindow(t, s, e))
Min(a, b) == IF a <= b THEN a ELSE b
ListPage(r, s, e, pg) ==
    IF r.echo THEN SubSeq(r.trades, 1, Min(maxPerPage, Len(r.trades)))
    ELSE LET f == Listing(r, s, e)
             lo == (pg - 1) * maxPerPage + 1
             hi == Min(pg * maxPerPage, Len(f))
         IN IF pg < 1 \/ lo > Len(f) THEN <<>> ELSE SubSeq(f, lo, hi)

\* (mutant of ListTrades: the error of doGet is dropped)
ListTrades_swallowErr(ok, s, e, pg) ==
    [err |-> FALSE, trades |-> IF ok THEN ListPage(remote, s, e, pg) ELSE <<>>]

\* Client.ListTrades: doGet's error, or the trades of the page.  ok tells
\* whether doGet returned nil.
ListTrades(ok, s, e, pg) ==
    IF ok THEN [err |-> FALSE, trades |-> ListPage(remote, s, e, pg)]
    ELSE [err |-> TRUE, trades |-> <<>>]

\* Whether the sub-record endpoint returns a non-empty list for a trade.
HasExecutions(t) == t.ID % 2 = 1

\* page++ on a Go int
incr(p) == IF p >= IntMax THEN -IntMax - 1 ELSE p + 1

\* state.json: absent, a JSON document, or cut short by a failed write.
AbsentState ==
    [file |-> "absent", LastExportDate |-> NoDate, FirstTradeDate |-> NoDate,
     TotalTrades |-> 0, TotalDays |-> 0, LastRunAt |-> <<0, 0>>]
TruncatedState == [AbsentState EXCEPT !.file = "truncated"]
\* models.ExportState{} and the nil *ExportState
NilState ==
    [nil |-> TRUE, LastExportDate |-> NoDate, FirstTradeDate |-> NoDate,
     TotalTrades |-> 0, TotalDays |-> 0, LastRunAt |-> <<0, 0>>]
EmptyState == [NilState EXCEPT !.nil = FALSE]

\* loadState: nil when the file is missing or is no JSON document.
loadState(f) ==
    IF f.file = "json"
    THEN [nil |-> FALSE, LastExportDate |-> f.LastExportDate,
          FirstTradeDate |-> f.FirstTradeDate, TotalTrades |-> f.TotalTrades,
          TotalDays |-> f.TotalDays, LastRunAt |-> f.LastRunAt]
    ELSE NilState

\* the document saveState writes
stateDoc(st) ==
    [file |-> "json", LastExportDate |-> st.LastExportDate,
     FirstTradeDate |-> st.FirstTradeDate, TotalTrades |-> st.TotalTrades,
     TotalDays |-> st.TotalDays, LastRunAt |-> st.LastRunAt]

\* A day file cut short by a failed write.
TruncatedFile ==
    [Date |-> BadDate, Trades |-> <<>>, Executions |-> {}, ExportedAt |-> <<0, 0>>]

\* the value of time.Now() as stored in a file: the run and the instant
Stamp == <<runs, now>>

\* Options
OptDates == {NoDate, BadDate} \cup (TradeDays)
Options ==
    [FromDate : OptDates, ToDate : OptDates, WithExecutions : BOOLEAN, Force : BOOLEAN]
FirstRunOpts ==
    [FromDate |-> NoDate, ToDate |-> NoDate, WithExecutions |-> FALSE, Force |-> FALSE]

Event(e, ph, k, n) == [ev |-> e, phase |-> ph, key |-> k, n |-> n]
\* the history l with the events es added
Logged(l, es) == SubSeq(l \o es, 1, Min(Len(l) + Len(es), MaxLog))

(***************************************************************************)
(* package exporter: Exporter.Run and what it calls.                       *)
(***************************************************************************)

\* The key groupTradesByDate files a trade under, when its date parses.
dateKey(t) == FormatDate(parseTradeDate(t.StartDatetime).t)
parses(t) == parseTradeDate(t.StartDatetime).ok

\* groupTradesByDate: each trade whose date parses is appended, in the order of
\* the input, to the slice of its key; the others are skipped.
groupTradesByDate(trades) ==
    [k \in {dateKey(trades[i]) : i \in {j \in 1..Len(trades) : parses(trades[j])}} |->
       SelectSeq(trades, LAMBDA t : parses(t) /\ dateKey(t) = k)]

\* sortedKeys: the keys of m in ascending order.
RECURSIVE sortSet(_)
sortSet(S) ==
    IF S = {} THEN <<>>
    ELSE LET m == CHOOSE x \in S : \A y \in S : x <= y
         IN <<m>> \o sortSet(S \ {m})
\* (mutant of sortedKeys: the keys in descending order)
sortedKeys_descending(m) ==
    LET asc == sortSet(DOMAIN m)
    IN [i \in 1..Len(asc) |-> asc[Len(asc) + 1 - i]]

sortedKeys(m) == sortSet(DOMAIN m)

\* The second half of ResolveWindow (Run, after the start date is known): the
\* end date, and the "already up to date" return.
resolveEnd(o, start) ==
    IF o.ToDate # NoDate /\ ~IsDate(o.ToDate)
    THEN [pc |-> "done", end |-> ZeroTime, ret |-> "invalid --to date"]
    ELSE LET end == IF o.ToDate # NoDate THEN ParseDate(o.ToDate) ELSE Now
         IN IF After(start, end)
            THEN [pc |-> "done", end |-> end, ret |-> "ok: up to date"]
            ELSE [pc |-> "fetch", end |-> end, ret |-> "running"]

\* (mutant of resolveStart: the cursor is used even when Force is set)
resolveStart_ignoreForce(o, st) ==
    IF o.FromDate # NoDate
    THEN IF IsDate(o.FromDate)
         THEN [how |-> "explicit", start |-> ParseDate(o.FromDate), err |-> ""]
         ELSE [how |-> "error", start |-> ZeroTime, err |-> "invalid --from date"]
    ELSE IF ~st.nil /\ st.LastExportDate # NoDate
    THEN [how |-> "cursor", start |-> AddDay(ParseDate(st.LastExportDate)), err |-> ""]
    ELSE [how |-> "discover", start |-> ZeroTime, err |-> ""]

\* The first half of ResolveWindow: the start date from the options and the
\* cursor, or the need to discover it.
resolveStart(o, st) ==
    IF o.FromDate # NoDate
    THEN IF IsDate(o.FromDate)
         THEN [how |-> "explicit", start |-> ParseDate(o.FromDate), err |-> ""]
         ELSE [how |-> "error", start |-> ZeroTime, err |-> "invalid --from date"]
    ELSE IF ~st.nil /\ st.LastExportDate # NoDate /\ ~o.Force
    THEN IF IsDate(st.LastExportDate)
         THEN [how |-> "cursor", start |-> AddDay(ParseDate(st.LastExportDate)), err |-> ""]
         ELSE [how |-> "error", start |-> ZeroTime, err |-> "corrupt state file"]
    ELSE [how |-> "discover", start |-> ZeroTime, err |-> ""]

\* Run is called: the data directory is made, the cursor is loaded and the
\* start of the window is resolved as far as no request is needed.
RunStart(o) ==
    /\ rpc \in {"idle", "done"}
    /\ runs < MaxRuns
    /\ runs' = runs + 1
    /\ before' = [stateFile |-> stateFile, archives |-> archives]
    /\ log' = <<>>
    /\ opts' = o
    /\ state' = loadState(stateFile)
    /\ page' = 1
    /\ oldest' = NoTrade
    /\ found' = FALSE
    /\ all' = <<>>
    /\ byDate' = <<>>
    /\ dates' = <<>>
    /\ idx' = 1
    /\ totalTrades' = 0
    /\ \E mkdirOk \in BOOLEAN :
         LET s == resolveStart(o, loadState(stateFile))
             e == resolveEnd(o, s.start)
         IN IF ~mkdirOk
            THEN /\ rpc' = "done"
                 /\ ret' = "creating data directory"
                 /\ startDate' = ZeroTime
                 /\ endDate' = ZeroTime
            ELSE IF s.how = "error"
            THEN /\ rpc' = "done"
                 /\ ret' = s.err
                 /\ startDate' = ZeroTime
                 /\ endDate' = ZeroTime
            ELSE IF s.how = "discover"
            THEN /\ rpc' = "discover"
                 /\ ret' = "running"
                 /\ startDate' = ZeroTime
                 /\ endDate' = ZeroTime
            ELSE /\ rpc' = e.pc
                 /\ ret' = e.ret
                 /\ startDate' = s.start
                 /\ endDate' = e.end
    /\ UNCHANGED <<tvars, envvars, diskvars>>

\* (mutant of oldestOf: the first element of the page is kept)
oldestOf_first(trades) == trades[1]

\* The element discoverFirstTradeDate keeps of a page.
oldestOf(trades) == trades[Len(trades)]

\* (mutant of shortPage: a full page is taken for the last one)
shortPage_orFull(trades) == Len(trades) <= 100

\* Whether a page is the last one ("This was the last page").
shortPage(trades) == Len(trades) < 100

\* (mutant of discoverResult: found is not looked at)
discoverResult_noFoundCheck(fnd, old) ==
    LET r == parseTradeDate(old.StartDatetime)
    IN [err |-> IF r.ok THEN "" ELSE "cannot parse date", t |-> r.t]

\* What discoverFirstTradeDate returns after its loop.
discoverResult(fnd, old) ==
    IF ~fnd THEN [err |-> "no trades found", t |-> ZeroTime]
    ELSE LET r == parseTradeDate(old.StartDatetime)
         IN [err |-> IF r.ok THEN "" ELSE "cannot parse date", t |-> r.t]

\* One turn of discoverFirstTradeDate's loop: a ListTrades call and, when the
\* loop ends with it, the rest of the function and of ResolveWindow.
DiscoverPage ==
    /\ rpc = "discover"
    /\ \E ok \in BOOLEAN :
         LET res == ListTrades(ok, discoverFrom, NoDate, page)
             trades == res.trades
             last == Len(trades) = 0 \/ shortPage(trades)
             nfound == found \/ Len(trades) > 0
             noldest == IF Len(trades) > 0 THEN oldestOf(trades) ELSE oldest
             first == discoverResult(nfound, noldest)
             e == resolveEnd(opts, first.t)
         IN IF res.err
            THEN /\ log' = Logged(log, <<Event("list", "discover", page, -1)>>)
                 /\ rpc' = "done"
                 /\ ret' = "discovering first trade"
                 /\ UNCHANGED <<page, oldest, found, startDate, endDate>>
            ELSE /\ log' = Logged(log, <<Event("list", "discover", page,
                                              IF ok THEN Len(trades) ELSE -1)>>)
                 /\ oldest' = noldest
                 /\ found' = nfound
                 /\ IF ~last
                    THEN /\ page' = incr(page)
                         /\ UNCHANGED <<rpc, ret, startDate, endDate>>
                    ELSE IF first.err # ""
                    THEN /\ rpc' = "done"
                         /\ ret' = first.err
                         /\ UNCHANGED <<page, startDate, endDate>>
                    ELSE /\ rpc' = e.pc
                         /\ ret' = e.ret
                         /\ startDate' = first.t
                         /\ endDate' = e.end
                         /\ page' = 1
    /\ UNCHANGED <<tvars, envvars, diskvars, opts, state, all, byDate, dates,
                   idx, totalTrades, runs, before>>

\* (mutant of noTrades: the empty result is not told apart)
noTrades_unchecked(allTrades) == FALSE

\* Whether Run returns "No trades found in the date range".
noTrades(allTrades) == Len(allTrades) = 0

\* One turn of fetchAllTrades's loop: a ListTrades call and, when the loop
\* ends with it, Run up to its loop over the dates (the empty-result return,
\* groupTradesByDate, sortedKeys).
FetchPage ==
    /\ rpc = "fetch"
    /\ \E ok \in BOOLEAN :
         LET res == ListTrades(ok, FormatDate(startDate), FormatDate(endDate), page)
             trades == res.trades
             last == Len(trades) = 0 \/ shortPage(trades)
             nall == all \o trades
             grouped == groupTradesByDate(nall)
         IN IF res.err
            THEN /\ log' = Logged(log, <<Event("list", "fetch", page, -1)>>)
                 /\ rpc' = "done"
                 /\ ret' = "fetching trades page"
                 /\ UNCHANGED <<page, all, byDate, dates>>
            ELSE /\ log' = Logged(log, <<Event("list", "fetch", page,
                                              IF ok THEN Len(trades) ELSE -1)>>)
                 /\ all' = nall
                 /\ IF ~last
                    THEN /\ page' = incr(page)
                         /\ UNCHANGED <<rpc, ret, byDate, dates>>
                    ELSE IF noTrades(nall)
                    THEN /\ rpc' = "done"
                         /\ ret' = "ok: no trades"
                         /\ UNCHANGED <<page, byDate, dates>>
                    ELSE /\ rpc' = "persist"
                         /\ byDate' = grouped
                         /\ dates' = sortedKeys(grouped)
                         /\ UNCHANGED <<page, ret>>
    /\ idx' = 1
    /\ totalTrades' = 0
    /\ UNCHANGED <<tvars, envvars, diskvars, opts, state, startDate, endDate,
                   oldest, found, runs, before>>

\* The file system after os.WriteFile(path, data): written, untouched (the
\* file could not be opened) or cut short (the write failed after the file
\* was truncated).
WriteOutcomes == {"ok", "fail", "truncate"}

\* (mutant of Put: a file that exists is left as it is)
Put_keepExisting(f, k, v) ==
    IF k \in DOMAIN f THEN f
    ELSE [x \in DOMAIN f \cup {k} |-> IF x = k THEN v ELSE f[x]]

\* (mutant of Put: the records are added to those of a file that exists)
Put_merge(f, k, v) ==
    [x \in DOMAIN f \cup {k} |->
        IF x # k THEN f[x]
        ELSE IF k \in DOMAIN f
             THEN [v EXCEPT !.Trades = f[k].Trades \o v.Trades]
             ELSE v]

Put(f, k, v) == [x \in DOMAIN f \cup {k} |-> IF x = k THEN v ELSE f[x]]

\* What fetchExecutionsForTrades returns when every call succeeds: the trades
\* (by ID) that have executions.
executionsOf(trades) ==
    {trades[i].ID : i \in {j \in 1..Len(trades) : HasExecutions(trades[j])}}

\* (mutant of dayExecutions: the executions fetched before the failure are kept)
dayExecutions_keepPartial(with, execsOk, trades) ==
    IF with THEN executionsOf(trades) ELSE {}

\* dayExport.Executions: set only when executions are asked for and
\* fetchExecutionsForTrades returned no error; a failure is logged and the
\* field stays nil (left out of the file).
dayExecutions(with, execsOk, trades) ==
    IF with /\ execsOk THEN executionsOf(trades) ELSE {}

\* (mutant of saveFailed: the error of saveDayExport is only logged)
saveFailed_ignored(w) == FALSE

\* Whether saveDayExport returned an error, on which Run returns.
saveFailed(w) == w # "ok"

\* One turn of Run's loop over the dates: the day's export is built, its
\* executions are fetched if asked for, and the file is written.
PersistDate ==
    /\ rpc = "persist"
    /\ idx <= Len(dates)
    /\ \E execsOk \in BOOLEAN, w \in WriteOutcomes :
         LET date == dates[idx]
             trades == byDate[date]
             dayExport == [Date |-> date, Trades |-> trades,
                           Executions |-> dayExecutions(opts.WithExecutions, execsOk, trades),
                           ExportedAt |-> Stamp]
             fetched == IF opts.WithExecutions
                        THEN <<Event("execs", "persist", date,
                                     IF execsOk THEN Len(trades) ELSE -1)>>
                        ELSE <<>>
         IN /\ (~opts.WithExecutions => execsOk)
            /\ totalTrades' = totalTrades + Len(trades)
            /\ log' = Logged(log, fetched
                        \o <<Event("save", "persist", date, IF w = "ok" THEN 0 ELSE -1)>>)
            /\ archives' = IF w = "ok" THEN Put(archives, date, dayExport)
                            ELSE IF w = "truncate" THEN Put(archives, date, TruncatedFile)
                            ELSE archives
            /\ IF saveFailed(w)
               THEN /\ rpc' = "done"
                    /\ ret' = "saving"
                    /\ UNCHANGED idx
               ELSE /\ idx' = idx + 1
                    /\ UNCHANGED <<rpc, ret>>
    /\ UNCHANGED <<tvars, envvars, stateFile, opts, state, startDate, endDate,
                   page, oldest, found, all, byDate, dates, runs, before>>

\* (mutant of updatedState: the run's dates replace the cursor's, the counts
\* accumulate)
updatedState_replaceDates(st, ds, total) ==
    LET s0 == IF st.nil THEN EmptyState ELSE st
    IN [nil |-> FALSE,
        LastExportDate |-> ds[Len(ds)],
        FirstTradeDate |-> ds[1],
        TotalTrades |-> s0.TotalTrades + total,
        TotalDays |-> s0.TotalDays + Len(ds),
        LastRunAt |-> Stamp]

\* The state Run saves: earliest and latest date, counts, time of the run.
updatedState(st, ds, total) ==
    LET s0 == IF st.nil THEN EmptyState ELSE st
        lastDate == ds[Len(ds)]
    IN [nil |-> FALSE,
        LastExportDate |-> IF lastDate > s0.LastExportDate
                           THEN lastDate ELSE s0.LastExportDate,
        FirstTradeDate |-> IF s0.FirstTradeDate = NoDate \/ ds[1] < s0.FirstTradeDate
                           THEN ds[1] ELSE s0.FirstTradeDate,
        TotalTrades |-> s0.TotalTrades + total,
        TotalDays |-> s0.TotalDays + Len(ds),
        LastRunAt |-> Stamp]

\* Run after its loop over the dates: the cursor is updated and saved.
\* dates[0] of an empty dates panics.
UpdateCursor ==
    /\ rpc = "persist"
    /\ idx > Len(dates)
    /\ rpc' = "done"
    /\ IF Len(dates) = 0
       THEN /\ ret' = "panic: index out of range"
            /\ UNCHANGED <<state, stateFile, log>>
       ELSE \E w \in WriteOutcomes :
            LET st == updatedState(state, dates, totalTrades) IN
            /\ state' = st
            /\ stateFile' = IF w = "ok" THEN stateDoc(st)
                            ELSE IF w = "truncate" THEN TruncatedState
                            ELSE stateFile
            /\ ret' = IF w = "ok" THEN "ok: complete" ELSE "saving state"
            /\ log' = Logged(log, <<Event("state", "update", NoDate, IF w = "ok" THEN 0 ELSE -1)>>)
    /\ UNCHANGED <<tvars, envvars, archives, opts, startDate, endDate, page,
                   oldest, found, all, byDate, dates, idx, totalTrades, runs, before>>

(***************************************************************************)
(* Accounts and initial states.                                            *)
(***************************************************************************)

RECURSIVE SumTo(_, _)
SumTo(c, d) == IF d = 0 THEN 0 ELSE c[d] + SumTo(c, d - 1)

\* The account with c[d] trades on day d, each at 10:00 of the reference
\* timezone, IDs ascending with time, listed newest first.
Account(c) ==
    LET n == SumTo(c, LastDay)
        dayOf(k) == CHOOSE d \in TradeDays : SumTo(c, d - 1) < k /\ k <= SumTo(c, d)
    IN [i \in 1..n |->
          [ID |-> n - i + 1,
           StartDatetime |-> [fmt |-> "rfc3339",
                              inst |-> 24 * dayOf(n - i + 1) + 10 - RefOff,
                              off |-> RefOff]]]

\* The synthetic newest-first source of n records, five to the hour, the
\* oldest at 10:00 of day 1 in the reference timezone.
Synthetic(n) ==
    [i \in 1..n |->
       [ID |-> n - i + 1,
        StartDatetime |-> [fmt |-> "rfc3339",
                           inst |-> 24 + 10 - RefOff + (n - i) \div 5,
                           off |-> RefOff]]]

\* An empty data directory and no run made yet.
InitExporter ==
    /\ archives = <<>>
    /\ stateFile = AbsentState
    /\ rpc = "idle"
    /\ opts = FirstRunOpts
    /\ state = NilState
    /\ startDate = ZeroTime
    /\ endDate = ZeroTime
    /\ page = 1
    /\ oldest = NoTrade
    /\ found = FALSE
    /\ all = <<>>
    /\ byDate = <<>>
    /\ dates = <<>>
    /\ idx = 1
    /\ totalTrades = 0
    /\ ret = "nil"
    /\ runs = 0
    /\ before = [stateFile |-> AbsentState, archives |-> <<>>]
    /\ log = <<>>

\* SpecGet: one Client and the calls made on it.
InitGet ==
    /\ InitClient
    /\ remote = [echo |-> FALSE, trades |-> <<>>]
    /\ now = 0
    /\ localOff = RefOff
    /\ tzdata = TRUE
    /\ InitExporter

\* Spec: runs of the exporter, with any options, against an account that has
\* trades on days TradeDays; the runs are made in the afternoon of day LastDay.
Init ==
    /\ InitClient
    /\ remote \in {[echo |-> FALSE, trades |-> Account(c)] : c \in [TradeDays -> DayCounts]}
    /\ now = 24 * LastDay + 21
    /\ localOff = RefOff
    /\ tzdata = TRUE
    /\ InitExporter

Next ==
    \/ \E o \in Options : RunStart(o)
    \/ DiscoverPage
    \/ FetchPage
    \/ PersistDate
    \/ UpdateCursor

Spec == Init /\ [][Next]_vars

\* SpecPage: runs without options against the synthetic source of n records.
InitPage ==
    /\ InitClient
    /\ remote \in {[echo |-> FALSE, trades |-> Synthetic(n)] : n \in 0..MaxN}
    /\ now = 24 * (MaxN \div 24 + 3)
    /\ localOff = RefOff
    /\ tzdata = TRUE
    /\ InitExporter

NextPage ==
    \/ RunStart(FirstRunOpts)
    \/ DiscoverPage
    \/ FetchPage
    \/ PersistDate
    \/ UpdateCursor

SpecPage == InitPage /\ [][NextPage]_vars

\* SpecEcho: a first run against a source that answers every page number with
\* the same full page.  The process keeps running: each step that can be taken
\* is taken.
InitEcho ==
    /\ InitClient
    /\ remote = [echo |-> TRUE, trades |-> Account([d \in TradeDays |-> maxPerPage])]
    /\ now = 24 * LastDay + 21
    /\ localOff = RefOff
    /\ tzdata = TRUE
    /\ InitExporter

NextEcho == RunStart(FirstRunOpts) \/ DiscoverPage

SpecEcho == InitEcho /\ [][NextEcho]_vars /\ WF_vars(NextEcho)

\* SpecTwice: the same explicit window is exported with Force, and then once
\* more with the same options.
ForcedWindows ==
    {o \in Options : o.Force /\ ~o.WithExecutions /\ IsDate(o.FromDate) /\ IsDate(o.ToDate)}

NextTwice ==
    \/ \E o \in ForcedWindows : (runs = 0 \/ o = opts) /\ RunStart(o)
    \/ FetchPage
    \/ PersistDate
    \/ UpdateCursor

SpecTwice == Init /\ [][NextTwice]_vars

\* SpecZone: runs without an explicit end date (with and without an explicit
\* start date, with and without Force), where the
\* process may be in another timezone than the reference timezone and may lack
\* the timezone database, the account holds up to one trade on either side of
\* the reference midnight that begins LastDay, written at the reference offset
\* or in UTC or as a date alone or unreadable, and the runs are made in the afternoon or in the
\* evening (reference time).  A day may pass between runs, during which the
\* account may gain a trade.
LocalOffs == {RefOff, 0}
ZoneNows == {24 * LastDay + 21, 24 * LastDay + 25}
BeforeMidnight == 24 * LastDay - RefOff - 1
AfterMidnight == 24 * LastDay - RefOff
\* the calendar date of an instant in the reference timezone
RefDay(i) == (i + RefOff) \div 24
Variants == {"none", "ref", "utc", "date", "bad"}
Stamped(id, inst, v) ==
    [ID |-> id,
     StartDatetime |-> [fmt |-> IF v = "bad" THEN "bad"
                                ELSE IF v = "date" THEN "dateonly" ELSE "rfc3339",
                        inst |-> inst,
                        off |-> IF v = "utc" THEN 0 ELSE RefOff]]
ZoneAccount(v1, v2) ==
    (IF v2 = "none" THEN <<>> ELSE <<Stamped(2, AfterMidnight, v2)>>)
    \o (IF v1 = "none" THEN <<>> ELSE <<Stamped(1, BeforeMidnight, v1)>>)

InitZone ==
    /\ InitClient
    /\ remote \in {[echo |-> FALSE, trades |-> ZoneAccount(v1, v2)] :
                      v1 \in Variants, v2 \in Variants}
    /\ now \in ZoneNows
    /\ localOff \in LocalOffs
    /\ tzdata \in BOOLEAN
    /\ InitExporter

\* Between two runs a day passes (no run is in progress); the account may have
\* gained a trade, made six hours before the new now.
NextDay ==
    /\ rpc \in {"idle", "done"}
    /\ RefDay(now) <= LastDay
    /\ now' = now + 24
    /\ \E gain \in BOOLEAN :
         remote' = IF gain
                   THEN [remote EXCEPT !.trades = <<Stamped(3, now + 18, "ref")>> \o @]
                   ELSE remote
    /\ rpc' = "idle"
    /\ UNCHANGED <<tvars, localOff, tzdata, diskvars, opts, state, startDate, endDate,
                   page, oldest, found, all, byDate, dates, idx, totalTrades, ret,
                   histvars>>

ZoneOpts ==
    {o \in Options : /\ o.FromDate \in {NoDate, LastDay - 1}
                     /\ o.ToDate = NoDate
                     /\ ~o.WithExecutions}

NextZone ==
    \/ \E o \in ZoneOpts : RunStart(o)
    \/ DiscoverPage
    \/ FetchPage
    \/ PersistDate
    \/ UpdateCursor
    \/ NextDay

SpecZone == InitZone /\ [][NextZone]_vars

\* SpecIncr: runs without options (the incremental use), made in the reference
\* timezone; between runs time passes, an hour or a day, and the account may
\* gain a trade made after the preceding run.
MaxNow == 24 * (LastDay + 1) + 22

\* Between two runs h hours pass (no run is in progress): a day, or, right after
\* a run, less than a day; the account may have gained a trade, made an hour
\* after the old now.
Later(h) ==
    /\ rpc \in {"idle", "done"}
    /\ h < 24 => rpc = "done"
    /\ now + h <= MaxNow
    /\ now' = now + h
    /\ \E gain \in BOOLEAN :
         remote' = IF gain
                   THEN [remote EXCEPT !.trades =
                            <<Stamped(Len(remote.trades) + 1, now + 1, "ref")>> \o @]
                   ELSE remote
    /\ rpc' = "idle"
    /\ UNCHANGED <<tvars, localOff, tzdata, diskvars, opts, state, startDate, endDate,
                   page, oldest, found, all, byDate, dates, idx, totalTrades, ret,
                   histvars>>

NextIncr ==
    \/ RunStart(FirstRunOpts)
    \/ DiscoverPage
    \/ FetchPage
    \/ PersistDate
    \/ UpdateCursor
    \/ \E h \in {1, 24} : Later(h)

SpecIncr == Init /\ [][NextIncr]_vars

\* SpecWindows: runs over explicit windows of whole days, in the reference
\* timezone, with or without the timezone database, against the accounts of
\* SpecZone; a second run is given a window that does not overlap the
\* first's and makes up the days 1..LastDay with it.
Windows ==
    {o \in Options : /\ IsDate(o.FromDate) /\ IsDate(o.ToDate)
                     /\ o.FromDate <= o.ToDate
                     /\ ~o.WithExecutions}

Splits(w1, w2) ==
    \/ w1.FromDate = 1 /\ w1.ToDate + 1 = w2.FromDate /\ w2.ToDate = LastDay
    \/ w2.FromDate = 1 /\ w2.ToDate + 1 = w1.FromDate /\ w1.ToDate = LastDay

InitWindows ==
    /\ InitClient
    /\ remote \in {[echo |-> FALSE, trades |-> ZoneAccount(v1, v2)] :
                      v1 \in Variants, v2 \in Variants}
    /\ now = 24 * LastDay + 21
    /\ localOff = RefOff
    /\ tzdata \in BOOLEAN
    /\ InitExporter

NextWindows ==
    \/ \E o \in Windows : (runs = 0 \/ Splits(opts, o)) /\ RunStart(o)
    \/ FetchPage
    \/ PersistDate
    \/ UpdateCursor

SpecWindows == InitWindows /\ [][NextWindows]_vars

\* The values of ret with which Run returns nil.
Okay == {"ok: up to date", "ok: no trades", "ok: complete"}

\* SpecKill: a run with any valid options, in which every request and every
\* write succeeds but the process may be terminated before the cursor is
\* written, followed by a run with the same options.  The data directory is
\* empty at first, or holds what an earlier run over day 1 has left.

\* The archives and the state file a completed run over day 1 leaves.
SeedArchives(r) ==
    LET g == groupTradesByDate(Listing(r, 1, 1))
    IN [d \in DOMAIN g |->
          [Date |-> d, Trades |-> g[d], Executions |-> {}, ExportedAt |-> Stamp]]
SeedState(r) ==
    LET g == groupTradesByDate(Listing(r, 1, 1))
    IN stateDoc(updatedState(NilState, sortedKeys(g), Len(Listing(r, 1, 1))))

InitKill ==
    /\ InitClient
    /\ remote \in {[echo |-> FALSE, trades |-> Account(c)] : c \in [TradeDays -> DayCounts]}
    /\ now = 24 * LastDay + 21
    /\ localOff = RefOff
    /\ tzdata = TRUE
    /\ runs = 0
    /\ \E seeded \in BOOLEAN :
         /\ seeded => Len(Listing(remote, 1, 1)) > 0
         /\ archives = IF seeded THEN SeedArchives(remote) ELSE <<>>
         /\ stateFile = IF seeded THEN SeedState(remote) ELSE AbsentState
    /\ before = [stateFile |-> stateFile, archives |-> archives]
    /\ rpc = "idle"
    /\ opts = FirstRunOpts
    /\ state = NilState
    /\ startDate = ZeroTime
    /\ endDate = ZeroTime
    /\ page = 1
    /\ oldest = NoTrade
    /\ found = FALSE
    /\ all = <<>>
    /\ byDate = <<>>
    /\ dates = <<>>
    /\ idx = 1
    /\ totalTrades = 0
    /\ ret = "nil"
    /\ log = <<>>

\* The process is terminated while Run is discovering, fetching or in its loop
\* over the dates, between two steps or in the middle of the write of an
\* archive (the file is left cut short); the cursor has not been written.
Terminate ==
    /\ rpc \in {"discover", "fetch", "persist"}
    /\ \E inWrite \in BOOLEAN :
         /\ inWrite => (rpc = "persist" /\ idx <= Len(dates))
         /\ archives' = IF inWrite THEN Put(archives, dates[idx], TruncatedFile)
                         ELSE archives
    /\ rpc' = "done"
    /\ ret' = "terminated"
    /\ UNCHANGED <<tvars, envvars, stateFile, opts, state, startDate, endDate, page,
                   oldest, found, all, byDate, dates, idx, totalTrades, histvars>>

ValidOpts == {o \in Options : o.FromDate # BadDate /\ o.ToDate # BadDate}

NextKill ==
    \/ \E o \in ValidOpts : (runs = 0 \/ o = opts) /\ RunStart(o)
    \/ DiscoverPage /\ ret' \in {"running"} \cup Okay
    \/ FetchPage /\ ret' \in {"running"} \cup Okay
    \/ PersistDate /\ ret' \in {"running"} \cup Okay
    \/ UpdateCursor /\ ret' \in {"running"} \cup Okay
    \/ Terminate

SpecKill == InitKill /\ [][NextKill]_vars

NextGet == doGetBegin \/ doGetAttempt \/ doGetExhausted

SpecGet == InitGet /\ [][NextGet]_vars

(***************************************************************************)
(* Claims about the transport (checked under SpecGet).                     *)
(***************************************************************************)

Retryable(o) ==
    \/ o.kind \in {"neterr", "readerr"}
    \/ o.kind = "resp" /\ o.status >= 500

\* C3: no two HTTP requests of one Client are issued less than requestDelay
\* (200 ms) apart, retried attempts included.
C3_MinSpacing ==
    \A i \in 1..(Len(issued) - 1) : issued[i + 1] - issued[i] >= requestDelay

\* C4: an attempt that receives 401, 400 or any other non-200 status below 500
\* is the last attempt of its call, whatever its index, and the call has
\* returned an error.
C4_NoRetryBelow500 ==
    \A i \in 1..Len(outs) :
        (outs[i].kind = "resp" /\ outs[i].status # 200 /\ outs[i].status < 500)
        => /\ i = Len(outs)
           /\ gpc = "idle"
           /\ gres.status = "err"
           /\ gres.attempts = i
           /\ gres.msg \in {"authentication failed", "bad request", "unexpected status"}

C4_Witness ==
    /\ gpc = "idle"
    /\ Len(outs) = 3
    /\ outs[3].kind = "resp" /\ outs[3].status = 404
    /\ gres.status = "err"

\* C5: a call makes at most maxRetries (3) attempts; while the attempts fail
\* with a status >= 500 or a network-level failure and fewer than 3 were made
\* the call is still in its loop, about to make the next one; and a call whose
\* 3 attempts all failed this way returns the terminal error that carries the
\* error of the third attempt.
C5_BoundedRetry ==
    /\ Len(outs) <= maxRetries
    /\ gres.attempts <= maxRetries
    /\ (Len(outs) > 0 /\ Len(outs) < maxRetries /\ Retryable(outs[Len(outs)]))
         => (gpc = "loop" /\ attempt = Len(outs) /\ ENABLED doGetAttempt)
    /\ (gpc = "idle" /\ Len(outs) = maxRetries /\ Retryable(outs[maxRetries]))
         => /\ gres.status = "err"
            /\ gres.msg = "request failed after attempts"
            /\ gres.attempts = maxRetries
            /\ gres.cause = attemptErr(outs[maxRetries])

C5_Witness ==
    /\ gpc = "idle"
    /\ Len(outs) = maxRetries
    /\ outs[1].kind = "neterr"
    /\ outs[2].kind = "readerr"
    /\ outs[3].kind = "resp" /\ outs[3].status = 503
    /\ gres.msg = "request failed after attempts"
    /\ gres.cause = [msg |-> "server error", status |-> 503]

(***************************************************************************)
(* Claims about the exporter.                                              *)
(***************************************************************************)

Events(e, ph) == SelectSeq(log, LAMBDA x : x.ev = e /\ x.phase = ph)
Failures(e, ph) == SelectSeq(log, LAMBDA x : x.ev = e /\ x.phase = ph /\ x.n = -1)
\* the cursor the current run loaded
Cursor == loadState(before.stateFile)

\* C1: when the write of a day's archive fails, Run returns an error, the
\* cursor file is what it was before the run, and the archives of the dates
\* written earlier in the run are on disk.
C1_SaveFailureKeepsCursor ==
    Len(Failures("save", "persist")) > 0
    => /\ rpc = "done"
       /\ ret = "saving"
       /\ stateFile = before.stateFile
       /\ Len(Events("state", "update")) = 0
       /\ \A i \in 1..(idx - 1) :
            /\ dates[i] \in DOMAIN archives
            /\ archives[dates[i]].Date = dates[i]
            /\ archives[dates[i]].Trades = byDate[dates[i]]
            /\ archives[dates[i]].ExportedAt = Stamp

C1_Witness ==
    /\ rpc = "done"
    /\ ret = "saving"
    /\ Len(Failures("save", "persist")) > 0
    /\ idx = 2
    /\ before.stateFile.file = "json"
    /\ archives[dates[1]] # before.archives[dates[1]]

\* C2: when a listing request of discovery or of the Fetch phase fails, on
\* whatever page, Run returns an error; the run has written no archive and the
\* cursor file is unchanged.
C2_ListFailureWritesNothing ==
    (Len(Failures("list", "discover")) + Len(Failures("list", "fetch")) > 0)
    => /\ rpc = "done"
       /\ ret \in {"discovering first trade", "fetching trades page"}
       /\ archives = before.archives
       /\ stateFile = before.stateFile
       /\ Len(Events("save", "persist")) = 0
       /\ Len(Events("state", "update")) = 0

C2_Witness ==
    /\ rpc = "done"
    /\ ret = "fetching trades page"
    /\ Len(Events("list", "discover")) = 3
    /\ Len(Events("list", "fetch")) = 2
    /\ log[Len(log)] = Event("list", "fetch", 2, -1)
    /\ before.archives # <<>>

\* The records of the window of the current run, as the remote lists them.
WindowListing == Listing(remote, FormatDate(startDate), FormatDate(endDate))
FetchEvents == Events("list", "fetch")
FetchFinished ==
    /\ rpc \in {"persist", "done"}
    /\ Len(FetchEvents) > 0
    /\ Len(Failures("list", "fetch")) = 0

\* C6: the fetch requests pages 1, 2, ... in order; having finished, it has
\* requested N \div P + 1 pages, every page but the last full and the last
\* short (empty when N is a multiple of P, N = 0 included), and it has
\* returned the N records of the window once each, in listing order.
C6_PaginatedFetch ==
    /\ \A i \in 1..Len(FetchEvents) : FetchEvents[i].key = i
    /\ FetchFinished
       => LET n == Len(WindowListing)
              k == Len(FetchEvents)
          IN /\ k = n \div maxPerPage + 1
             /\ \A i \in 1..(k - 1) : FetchEvents[i].n = maxPerPage
             /\ FetchEvents[k].n = n % maxPerPage
             /\ all = WindowListing

C6_Witness ==
    /\ FetchFinished
    /\ Len(WindowListing) = 2 * maxPerPage
    /\ Len(FetchEvents) = 3
    /\ FetchEvents[3].n = 0
    /\ Len(all) = 2 * maxPerPage

\* C7: against a source that answers every page number with the same full
\* page, the run (its discovery scan, its fetch) comes to an end.
C7_EchoTerminates == <>(rpc = "done")

DiscoverEvents == Events("list", "discover")
DiscoveryFinished ==
    /\ runs > 0
    /\ rpc # "discover"
    /\ Len(DiscoverEvents) > 0
    /\ Len(Failures("list", "discover")) = 0
    /\ Len(remote.trades) >= 1

\* C8: on the newest-first source of N >= 1 records discovery ends with the
\* N-th (oldest) record and returns its date.
C8_DiscoveryFindsOldest ==
    DiscoveryFinished
    => LET n == Len(remote.trades) IN
       /\ oldest = remote.trades[n]
       /\ ret # "no trades found"
       /\ startDate.inst = remote.trades[n].StartDatetime.inst
       /\ FormatDate(startDate) = RemoteDay(remote.trades[n])
       /\ Len(DiscoverEvents) = n \div maxPerPage + 1

C8_Witness ==
    /\ DiscoveryFinished
    /\ Len(remote.trades) = 2 * maxPerPage
    /\ Len(DiscoverEvents) = 3
    /\ oldest.ID = 1

\* C9: with no cursor and no explicit start date, when the first discovery
\* page holds no record the run ends with the error "no trades found" and
\* has written nothing.
C9_EmptyAccount ==
    (/\ runs > 0
     /\ Cursor.nil
     /\ opts.FromDate = NoDate
     /\ Len(log) > 0
     /\ log[1] = Event("list", "discover", 1, 0))
    => /\ rpc = "done"
       /\ ret = "no trades found"
       /\ Len(log) = 1
       /\ archives = before.archives
       /\ stateFile = before.stateFile

C9_Witness ==
    /\ rpc = "done"
    /\ ret = "no trades found"
    /\ before.stateFile.file = "absent"
    /\ opts.FromDate = NoDate
    /\ log = <<Event("list", "discover", 1, 0)>>

\* The run got past the first half of ResolveWindow.
StartResolved ==
    /\ runs > 0
    /\ rpc # "discover"
    /\ ret \notin {"creating data directory", "invalid --from date", "corrupt state file",
                   "discovering first trade", "no trades found", "cannot parse date"}

\* C10: the start of the window is the explicit start date when one is given;
\* else the day after the cursor's latest date when a cursor exists and Force
\* is not set; else the date discovery found (the date of the oldest trade).
\* Discovery requests are made in the third case only.
C10_ResolveWindowPriority ==
    /\ StartResolved
       => IF opts.FromDate # NoDate
          THEN startDate = ParseDate(opts.FromDate) /\ FormatDate(startDate) = opts.FromDate
          ELSE IF ~Cursor.nil /\ ~opts.Force
          THEN FormatDate(startDate) = Cursor.LastExportDate + 1
          ELSE /\ Len(remote.trades) > 0
               /\ FormatDate(startDate) = RemoteDay(remote.trades[Len(remote.trades)])
    /\ Len(DiscoverEvents) > 0
       => opts.FromDate = NoDate /\ (Cursor.nil \/ opts.Force)
    /\ (StartResolved /\ opts.FromDate = NoDate /\ (Cursor.nil \/ opts.Force))
       => Len(DiscoverEvents) > 0

C10_Witness ==
    /\ StartResolved
    /\ rpc = "fetch"
    /\ ~Cursor.nil
    /\ opts.Force
    /\ opts.FromDate = NoDate
    /\ Len(DiscoverEvents) > 0
    /\ FormatDate(startDate) < Cursor.LastExportDate

\* The dates whose archive the current run wrote, their smallest and largest,
\* and the number of records in those archives.
Written == {d \in DOMAIN archives : archives[d].ExportedAt = Stamp}
Smallest(S) == CHOOSE x \in S : \A y \in S : x <= y
Largest(S) == CHOOSE x \in S : \A y \in S : y <= x
RECURSIVE RecordsIn(_)
RecordsIn(S) ==
    IF S = {} THEN 0
    ELSE LET d == Smallest(S) IN Len(archives[d].Trades) + RecordsIn(S \ {d})

\* C14: after a successful run that wrote at least one date, the cursor on
\* disk has earliest = min(previous earliest, smallest date written), latest =
\* max(previous latest, largest date written), record count = previous count +
\* records written by the run, day count = previous count + dates written by
\* the run; a missing previous cursor counts as empty.
C14_CursorUpdate ==
    (rpc = "done" /\ ret = "ok: complete")
    => LET b == Cursor
           a == loadState(stateFile)
       IN /\ Written # {}
          /\ ~a.nil
          /\ a.FirstTradeDate = IF b.FirstTradeDate = NoDate THEN Smallest(Written)
                                 ELSE Min(b.FirstTradeDate, Smallest(Written))
          /\ a.LastExportDate = IF b.LastExportDate = NoDate THEN Largest(Written)
                                 ELSE Largest({b.LastExportDate, Largest(Written)})
          /\ a.TotalTrades = b.TotalTrades + RecordsIn(Written)
          /\ a.TotalDays = b.TotalDays + Cardinality(Written)

C14_Witness ==
    /\ rpc = "done"
    /\ ret = "ok: complete"
    /\ ~Cursor.nil
    /\ Cursor.TotalTrades > 0
    /\ Largest(Written) < Cursor.LastExportDate
    /\ Smallest(Written) < Cursor.FirstTradeDate
    /\ loadState(stateFile).LastExportDate = Cursor.LastExportDate

\* C19: when the fetch of the executions of a date's trades fails, the run
\* goes on: the archive of that date is written with its trades and without
\* executions, the other dates are processed, and a run in which every write
\* succeeds ends with the cursor updated.
C19_ExecutionsFailureGoesOn ==
    /\ \A i \in 1..Len(log) :
         (log[i].ev = "execs" /\ log[i].n = -1)
         => /\ i < Len(log)
            /\ log[i + 1].ev = "save"
            /\ log[i + 1].key = log[i].key
            /\ log[i + 1].n = 0
               => /\ archives[log[i].key].Date = log[i].key
                  /\ archives[log[i].key].Trades = byDate[log[i].key]
                  /\ archives[log[i].key].Executions = {}
                  /\ archives[log[i].key].ExportedAt = Stamp
    /\ (Len(Failures("execs", "persist")) > 0 /\ Len(Failures("save", "persist")) = 0)
       => /\ rpc \in {"persist", "done"}
          /\ rpc = "persist" => Len(Events("save", "persist")) = idx - 1
          /\ rpc = "done"
             => /\ Len(Events("save", "persist")) = Len(dates)
                /\ Len(Events("state", "update")) = 1
                /\ Len(Failures("state", "update")) = 0
                   => /\ ret = "ok: complete"
                      /\ loadState(stateFile).LastExportDate >= dates[Len(dates)]

C19_Witness ==
    /\ rpc = "done"
    /\ ret = "ok: complete"
    /\ Len(dates) = 2
    /\ Len(Failures("execs", "persist")) = 1
    /\ Failures("execs", "persist")[1].key = dates[1]
    /\ archives[dates[1]].Executions = {}
    /\ archives[dates[1]].Trades = byDate[dates[1]]
    /\ archives[dates[2]].Executions # {}

\* C15: over a run of any kind the cursor's latest date does not become
\* earlier (unless the run had an explicit earlier window and Force) and its
\* earliest date does not become later: a cursor that was on disk before the
\* run is on disk after it, with such dates.
C15_CursorMonotone ==
    (runs > 0 /\ ~Cursor.nil)
    => LET a == loadState(stateFile)
       IN /\ ~a.nil
          /\ \/ a.LastExportDate >= Cursor.LastExportDate
             \/ /\ opts.Force
                /\ IsDate(opts.FromDate)
                /\ opts.FromDate <= Cursor.LastExportDate
          /\ a.FirstTradeDate <= Cursor.FirstTradeDate

\* C20: when a window was exported with Force and is exported again with the
\* same options, both runs succeeding, every archive the second run writes is
\* equal to the file the first run wrote.
C20_RerunSameBytes ==
    (/\ runs = 2
     /\ rpc = "done"
     /\ ret = "ok: complete"
     /\ Cursor.LastRunAt = <<1, now>>)
    => \A d \in Written : d \in DOMAIN before.archives /\ archives[d] = before.archives[d]

\* The window of the current run is known: both of its ends were computed.
WindowResolved == StartResolved /\ ret # "invalid --to date"

\* The process runs in the reference timezone and has the timezone database.
AtReference == localOff = RefOff /\ tzdata

\* C11: when the start date of the window is later than its end date, no
\* Fetch-phase request is made and the run ends with success ("up to date"),
\* having written no archive and left the cursor file as it was.  (Stated for
\* a process in the reference timezone.)
C11_InvertedWindowIsUpToDate ==
    (AtReference /\ WindowResolved /\ FormatDate(startDate) > FormatDate(endDate))
    => /\ Len(FetchEvents) = 0
       /\ rpc # "persist"
       /\ rpc = "done"
          => /\ ret = "ok: up to date"
             /\ archives = before.archives
             /\ stateFile = before.stateFile

\* C12: without an explicit end date the end of the window, which is the end
\* date sent to the remote listing, is today's date in the reference
\* timezone, whatever the timezone of the process.
C12_EndIsReferenceToday ==
    (/\ tzdata
     /\ WindowResolved
     /\ opts.ToDate = NoDate
     /\ Len(FetchEvents) > 0
     /\ rpc \in {"fetch", "persist"})
    => FormatDate(endDate) = RefDay(now)

\* the positions of the records of the account on reference date d
RecordsOn(d) == {i \in 1..Len(remote.trades) : RemoteDay(remote.trades[i]) = d}

\* C13: with a cursor whose latest date is D, no explicit dates and now on
\* day D+1, the window is [D+1, D+1]; when the account holds one record on
\* D+1 the run writes the archive of D+1 and no other, and the cursor's
\* latest date becomes D+1.  (Stated for a process that has the timezone
\* database.)
C13_IncrementalScenario ==
    (/\ tzdata
     /\ runs > 0
     /\ rpc \in {"fetch", "persist", "done"}
     /\ ~Cursor.nil
     /\ opts = FirstRunOpts
     /\ RefDay(now) = Cursor.LastExportDate + 1)
    => /\ WindowResolved
          => /\ FormatDate(startDate) = Cursor.LastExportDate + 1
             /\ FormatDate(endDate) = Cursor.LastExportDate + 1
       /\ (/\ rpc = "done"
           /\ ret = "ok: complete"
           /\ Cardinality(RecordsOn(Cursor.LastExportDate + 1)) = 1)
          => /\ Written = {Cursor.LastExportDate + 1}
             /\ Len(archives[Cursor.LastExportDate + 1].Trades) = 1
             /\ loadState(stateFile).LastExportDate = Cursor.LastExportDate + 1

\* The fetched records have been grouped.
Grouped == rpc = "persist" \/ (rpc = "done" /\ DOMAIN byDate # {})
Parseable == {i \in 1..Len(all) : parses(all[i])}
\* the keys of the buckets that hold record t
BucketsOf(t) == {k \in DOMAIN byDate : \E j \in 1..Len(byDate[k]) : byDate[k][j] = t}
RECURSIVE BucketSizes(_)
BucketSizes(K) ==
    IF K = {} THEN 0
    ELSE LET k == Smallest(K) IN Len(byDate[k]) + BucketSizes(K \ {k})

\* C16: every fetched record whose timestamp parses is in exactly one bucket,
\* the one keyed by the date of its timestamp in the reference timezone; no
\* bucket is empty and the buckets hold the parseable records and no others.
C16_GroupingPartition ==
    Grouped
    => /\ \A k \in DOMAIN byDate : Len(byDate[k]) > 0
       /\ \A i \in Parseable : BucketsOf(all[i]) = {RemoteDay(all[i])}
       /\ \A k \in DOMAIN byDate : \A j \in 1..Len(byDate[k]) :
            \E i \in Parseable : all[i] = byDate[k][j]
       /\ BucketSizes(DOMAIN byDate) = Cardinality(Parseable)

\* C17: the record made in the hour before a midnight of the reference
\* timezone and the record made at that midnight are filed under the two
\* adjacent dates of the reference timezone, whatever offset their timestamps
\* are written in and whatever the timezone and timezone data of the process.
C17_MidnightBoundary ==
    Grouped
    => \A i \in Parseable :
         /\ all[i].StartDatetime.inst = BeforeMidnight => BucketsOf(all[i]) = {LastDay - 1}
         /\ all[i].StartDatetime.inst = AfterMidnight => BucketsOf(all[i]) = {LastDay}

\* C18: when fetched records have a timestamp that does not parse (some of
\* them or all), a run whose requests and writes succeed ends normally and
\* the archives hold every record whose timestamp parses.  (Stated for a
\* process in the reference timezone.)
C18_UnparseableSkipped ==
    (/\ AtReference
     /\ rpc = "done"
     /\ FetchFinished
     /\ Cardinality(Parseable) < Len(all)
     /\ Len(Failures("save", "persist")) = 0
     /\ Len(Failures("state", "update")) = 0)
    => /\ ret = "ok: complete"
       /\ \A i \in Parseable :
            \E d \in Written : \E j \in 1..Len(archives[d].Trades) :
               archives[d].Trades[j] = all[i]

\* The writes of archives the current run has made or tried, in order.
SaveEvents == Events("save", "persist")

\* C25: within a run the archives are written in strictly ascending order of
\* their dates, one write for each bucket, and the write of the cursor comes
\* after the last write of an archive.
C25_AscendingWrites ==
    /\ \A i \in 1..Len(SaveEvents) : \A j \in 1..Len(SaveEvents) :
         i < j => SaveEvents[i].key < SaveEvents[j].key
    /\ \A i \in 1..Len(SaveEvents) :
         SaveEvents[i].key \in DOMAIN byDate /\ SaveEvents[i].key = dates[i]
    /\ Len(Events("state", "update")) <= 1
    /\ Len(Events("state", "update")) = 1
       => /\ log[Len(log)].ev = "state"
          /\ Len(SaveEvents) = Cardinality(DOMAIN byDate)

C25_Witness ==
    /\ rpc = "done"
    /\ Len(SaveEvents) = 2
    /\ SaveEvents[1].key < SaveEvents[2].key
    /\ log[Len(log)].ev = "state"
    /\ Len(log) = 4

\* C26: every request of a run (listing pages and fetches of executions) is
\* made before the run writes its first archive.
C26_RequestsBeforeWrites ==
    \A i \in 1..Len(log) : \A j \in 1..Len(log) :
       (i < j /\ log[i].ev = "save") => log[j].ev \notin {"list", "execs"}

\* C28: a run given a start date or an end date that is no valid date returns
\* an error; it has made no request and has written neither an archive nor
\* the cursor, with or without a cursor on disk.
C28_InvalidDateNoRequest ==
    (/\ runs > 0
     /\ \/ (opts.FromDate # NoDate /\ ~IsDate(opts.FromDate))
        \/ (opts.ToDate # NoDate /\ ~IsDate(opts.ToDate)))
    => /\ Len(log) = 0
       /\ rpc = "done"
          => ret \in {"creating data directory", "invalid --from date", "invalid --to date"}
       /\ archives = before.archives
       /\ stateFile = before.stateFile

\* C29: when the fetch of a window returns no record the run ends with
\* success, has written no archive and has left the cursor file as it was.
C29_EmptyFetch ==
    (rpc = "done" /\ FetchFinished /\ Len(all) = 0)
    => /\ ret = "ok: no trades"
       /\ Len(SaveEvents) = 0
       /\ Len(Events("state", "update")) = 0
       /\ archives = before.archives
       /\ stateFile = before.stateFile

C29_Witness ==
    /\ rpc = "done"
    /\ ret = "ok: no trades"
    /\ FetchFinished
    /\ ~Cursor.nil
    /\ opts = FirstRunOpts
    /\ FormatDate(startDate) = Cursor.LastExportDate + 1
    /\ FormatDate(startDate) <= FormatDate(endDate)
    /\ stateFile = before.stateFile

\* The archive a successful write of date d by the current run leaves: the
\* run's bucket of d, with the executions the run fetched for it.
BucketFile(d) ==
    LET fetched == SelectSeq(log, LAMBDA x : x.ev = "execs" /\ x.key = d)
    IN [Date |-> d,
        Trades |-> byDate[d],
        Executions |-> IF Len(fetched) > 0 /\ fetched[1].n >= 0
                       THEN executionsOf(byDate[d]) ELSE {},
        ExportedAt |-> Stamp]

\* C22: there is at most one archive for a date (the archive filed under d
\* is the one that carries the date d), and after a run has written a date
\* the archive is exactly the run's bucket of that date, with nothing of what
\* the file held before, whether or not Force is set.
C22_ArchiveReplaced ==
    /\ \A d \in DOMAIN archives : archives[d] = TruncatedFile \/ archives[d].Date = d
    /\ \A i \in 1..Len(SaveEvents) :
         SaveEvents[i].n >= 0 => archives[SaveEvents[i].key] = BucketFile(SaveEvents[i].key)

C22_Witness ==
    /\ runs = 2
    /\ ~opts.Force
    /\ \E i \in 1..Len(SaveEvents) :
         LET d == SaveEvents[i].key IN
         /\ SaveEvents[i].n >= 0
         /\ d \in DOMAIN before.archives
         /\ before.archives[d].Executions # {}
         /\ archives[d].Executions = {}
         /\ Len(archives[d].Trades) > 0

\* The dates of the records the current run has fetched.
FetchedDates == {dateKey(all[i]) : i \in {j \in 1..Len(all) : parses(all[j])}}

\* C23: after any runs against the same remote records, a record id is in at
\* most one archive and at most once in it, and a run leaves as it was every
\* archive whose date is not the date of a record the run fetched.
C23_NoDuplicatesNoTouch ==
    /\ \A d1 \in DOMAIN archives : \A d2 \in DOMAIN archives :
         \A i \in 1..Len(archives[d1].Trades) : \A j \in 1..Len(archives[d2].Trades) :
            archives[d1].Trades[i].ID = archives[d2].Trades[j].ID => (d1 = d2 /\ i = j)
    /\ \A d \in DOMAIN before.archives :
         d \notin FetchedDates => (d \in DOMAIN archives /\ archives[d] = before.archives[d])

C23_Witness ==
    /\ runs = 2
    /\ rpc = "done"
    /\ ret = "ok: complete"
    /\ \E d \in DOMAIN before.archives :
         /\ d \notin FetchedDates
         /\ Len(archives[d].Trades) > 0
         /\ archives[d] = before.archives[d]
    /\ \E d \in DOMAIN before.archives :
         /\ d \in FetchedDates
         /\ Len(before.archives[d].Trades) > 0
         /\ archives[d].ExportedAt = Stamp

\* Whether the archive of the date of remote record t holds t.
Archived(t) ==
    /\ RemoteDay(t) \in DOMAIN archives
    /\ \E j \in 1..Len(archives[RemoteDay(t)].Trades) :
         archives[RemoteDay(t)].Trades[j].ID = t.ID

\* C27: after a first run and an incremental run without dates, both
\* successful, where the account gained between the runs only records made
\* after the preceding run, every remote record dated not later than the
\* cursor's latest date is in the archive of its date.
C27_NoGap ==
    (/\ runs >= 2
     /\ rpc = "done"
     /\ ret \in Okay
     /\ ~Cursor.nil
     /\ ~loadState(stateFile).nil
     /\ \A d \in DOMAIN archives : archives[d] # TruncatedFile)
    => \A i \in 1..Len(remote.trades) :
          RemoteDay(remote.trades[i]) <= loadState(stateFile).LastExportDate
          => Archived(remote.trades[i])

\* The dates and records of the archives on disk.
Content == [d \in DOMAIN archives |-> archives[d].Trades]

\* The dates and records of the archives that one run over the days f..t
\* writes into an empty directory.
SingleRun(f, t) == groupTradesByDate(Listing(remote, f, t))

\* C21: a run over a window, and two runs over two windows that do not
\* overlap and make up the days 1..LastDay, leave the archives (dates and
\* records) that a single run over all the days of the windows leaves.
C21_SplitWindows ==
    (rpc = "done" /\ ret = "ok: complete")
    => /\ runs = 1 => Content = SingleRun(opts.FromDate, opts.ToDate)
       /\ (runs = 2 /\ ~Cursor.nil) => Content = SingleRun(1, LastDay)

\* The cursor is the one the data directory held at first: no run has
\* written it.
CursorUnwritten == Cursor.nil \/ Cursor.LastRunAt[1] = 0

\* The window a run resolves from its options and the cursor: the explicit
\* start, or the day after the cursor's latest date, or the date of the oldest
\* remote record; the explicit end or today.
ResumeStart ==
    IF opts.FromDate # NoDate THEN opts.FromDate
    ELSE IF ~Cursor.nil /\ ~opts.Force THEN Cursor.LastExportDate + 1
    ELSE dateKey(remote.trades[Len(remote.trades)])
ResumeEnd == IF opts.ToDate # NoDate THEN opts.ToDate ELSE FormatDate(Now)

\* The dates and records the data directory held at first, and a with the
\* archives of b put over it.
FirstContent ==
    IF Cursor.nil THEN <<>>
    ELSE [d \in DOMAIN SeedArchives(remote) |-> SeedArchives(remote)[d].Trades]
Overlay(a, b) ==
    [d \in DOMAIN a \cup DOMAIN b |-> IF d \in DOMAIN b THEN b[d] ELSE a[d]]

\* C24: when the process is terminated before the cursor is written the
\* cursor on disk is the one from before the run; a following run with the
\* same options resolves the window the terminated run resolved, and ends
\* with the archives (dates and records) of a run that was not interrupted:
\* those the directory held at first with the archives of the window put over
\* them.
C24_TerminatedRerun ==
    /\ ret = "terminated" => stateFile = before.stateFile
    /\ (/\ CursorUnwritten
        /\ runs > 0
        /\ rpc \in {"fetch", "persist"} \/ (rpc = "done" /\ ret \in Okay))
       => (FormatDate(startDate) = ResumeStart /\ FormatDate(endDate) = ResumeEnd)
    /\ (CursorUnwritten /\ rpc = "done" /\ ret \in {"ok: complete", "ok: no trades"})
       => Content = Overlay(FirstContent, SingleRun(ResumeStart, ResumeEnd))

C24_Witness ==
    /\ runs = 2
    /\ rpc = "done"
    /\ ret = "ok: complete"
    /\ opts = FirstRunOpts
    /\ ~Cursor.nil
    /\ CursorUnwritten
    /\ Cardinality(DOMAIN before.archives) = 2
    /\ \E d \in DOMAIN before.archives : before.archives[d] = TruncatedFile
    /\ \A d \in DOMAIN archives : Len(archives[d].Trades) > 0
    /\ Content = Overlay(FirstContent, SingleRun(ResumeStart, ResumeEnd))

====
